---------------------------- MODULE Spec2Model ----------------------------
(***************************************************************************)
(* Geo Image Stamp (src/src/App.jsx).  The file holds two implementations  *)
(* of the same camera + location-stamp pipeline:                           *)
(*   variant 1  lines  71-426  startCamera / drawStampOnCanvas /           *)
(*                             captureAndDownload                          *)
(*   variant 2  lines 430-612  startCamera / fetchLocation / capturePhoto  *)
(* The model is one session of one of the two components.                  *)
(*                                                                         *)
(* JavaScript values.  A string is the sequence of its comma-delimited     *)
(* segments, so that split(",")[0] is the head and join(", ") is           *)
(* concatenation; "" is the empty sequence.  undefined is a distinguished  *)
(* value that is no string.                                                *)
(***************************************************************************)
EXTENDS Integers, Sequences, FiniteSets, TLC

Undefined == <<"#undefined">>
Empty == <<>>
Thrown == <<"#TypeError">>

\* JS truthiness of a string-or-undefined value (Boolean(v)).
Truthy(v) == v # Undefined /\ v # Empty

\* JS  a || b
Or(a, b) == IF Truthy(a) THEN a ELSE b

\* s.split(",")[0] of a string s
FirstSegment(s) == IF s = Empty THEN Empty ELSE IF Head(s) = "" THEN Empty ELSE <<Head(s)>>

\* s.length of a one-segment string
StrLen(s) == IF s = Empty THEN 0 ELSE Len(s[1])

RECURSIVE Join(_)
\* parts.join(", ") of a sequence of strings
Join(parts) == IF parts = <<>> THEN Empty ELSE Head(parts) \o Join(Tail(parts))

\* parts.filter(Boolean)
FilterBoolean(parts) == SelectSeq(parts, Truthy)

\* the segment a template literal `${v || ""}` contributes
Segment(v) == IF Truthy(v) THEN v[1] ELSE ""

(***************************************************************************)
(* Timestamp and place extraction: the pure functions of lines 12-69.      *)
(***************************************************************************)

\* line 37: first.length < 40
MaxLandmarkLen == 40

AddressFields ==
  {"attraction", "building", "leisure", "amenity", "poi", "town", "village",
   "city", "suburb", "neighbourhood", "road", "state", "postcode", "country"}

\* {} of  j.address || {}
NoAddress == [f \in AddressFields |-> Undefined]

\* nom.address || {}
AddressOf(nom) == IF nom.hasAddress THEN nom.address ELSE NoAddress

\* lines 32-54
extractNominatimLandmark(nom) ==
  IF nom.isNull THEN Empty
  ELSE IF Truthy(nom.name) THEN nom.name
  ELSE IF /\ Truthy(nom.display_name)
          /\ Truthy(FirstSegment(nom.display_name))
          /\ StrLen(FirstSegment(nom.display_name)) < MaxLandmarkLen
       THEN FirstSegment(nom.display_name)
  ELSE LET a == AddressOf(nom) IN
    Or(a.attraction, Or(a.building, Or(a.leisure, Or(a.amenity, Or(a.poi,
    Or(a.town, Or(a.village, Or(a.city, Or(a.suburb, Or(a.neighbourhood,
    Or(a.road, Empty)))))))))))

\* lines 154-161: the address parts of startCamera, before filter(Boolean)
NominatimParts(a) ==
  << a.road,
     Or(a.neighbourhood, a.suburb),
     Or(a.city, Or(a.town, a.village)),
     a.state,
     a.postcode,
     a.country >>

\* lines 154-162: parts.filter(Boolean).join(", ")
NominatimLine2(a) == Join(FilterBoolean(NominatimParts(a)))

\* lines 491-499: line1 of fetchLocation
FetchLocationLine1(addr) ==
  Or(addr.attraction, Or(addr.building, Or(addr.neighbourhood, Or(addr.suburb,
  Or(addr.city, Or(addr.town, Or(addr.village, <<"Unknown Place">>)))))))

\* lines 500-502: line2 of fetchLocation, a template with five slots
FetchLocationLine2(addr) ==
  << Segment(addr.road), Segment(addr.city), Segment(addr.state),
     Segment(addr.postcode), Segment(addr.country) >>

\* line 60: r.types && (r.types.includes("point_of_interest") || r.types.includes("establishment"))
IsPlace(r) == "point_of_interest" \in r.types \/ "establishment" \in r.types

\* line 61: r.address_components && r.address_components[0].long_name
\* (an empty array is truthy, and [][0].long_name throws a TypeError)
FirstComponentUnguarded(r) ==
  IF ~r.hasComponents THEN Undefined
  ELSE IF r.components = <<>> THEN Thrown
  ELSE r.components[1]

\* line 66: r.address_components?.[0]?.long_name
FirstComponentGuarded(r) ==
  IF ~r.hasComponents \/ r.components = <<>> THEN Undefined ELSE r.components[1]

\* line 61
PlaceLandmark(r) ==
  IF Truthy(r.formatted_address) THEN r.formatted_address
  ELSE IF FirstComponentUnguarded(r) = Thrown THEN Thrown
  ELSE Or(FirstComponentUnguarded(r), Empty)

\* line 66
FirstResultLandmark(r) == Or(FirstComponentGuarded(r), Or(r.formatted_address, Empty))

\* lines 59-63: the index of the first result the loop returns from, 0 if none
FirstPlaceIndex(results) ==
  IF \E i \in 1..Len(results) : IsPlace(results[i])
  THEN CHOOSE i \in 1..Len(results) :
         IsPlace(results[i]) /\ \A k \in 1..(i - 1) : ~IsPlace(results[k])
  ELSE 0

\* lines 57-69
extractGoogleLandmark(geo) ==
  IF geo.isNull \/ ~geo.hasResults THEN Empty
  ELSE IF FirstPlaceIndex(geo.results) # 0
       THEN PlaceLandmark(geo.results[FirstPlaceIndex(geo.results)])
  ELSE IF geo.results # <<>> THEN FirstResultLandmark(geo.results[1])
  ELSE Empty

\* GoogleLine2 taking the address of the result the landmark comes from
GoogleLine2_OfChosen(data) ==
  IF ~data.hasResults \/ data.results = <<>> THEN Empty
  ELSE IF FirstPlaceIndex(data.results) # 0
       THEN Or(data.results[FirstPlaceIndex(data.results)].formatted_address, Empty)
  ELSE Or(data.results[1].formatted_address, Empty)

\* lines 137-138: data.results?.[0]?.formatted_address || ""
GoogleLine2(data) ==
  IF ~data.hasResults \/ data.results = <<>> THEN Empty
  ELSE Or(data.results[1].formatted_address, Empty)

(***************************************************************************)
(* Time rendering, lines 12-29 and 462-467.  A rendered number is the      *)
(* sequence of its decimal digits.                                         *)
(***************************************************************************)

RECURSIVE Digits(_)
\* String(n) of a non-negative integer
Digits(n) == IF n < 10 THEN <<n>> ELSE Digits(n \div 10) \o <<n % 10>>

\* line 12: String(n).padStart(2, "0")
pad(n) == IF Len(Digits(n)) < 2 THEN <<0>> \o Digits(n) ELSE Digits(n)

\* Math.abs
Abs(n) == IF n >= 0 THEN n ELSE -n

\* formatOffset with  total = tzMinutes
formatOffset_NoNegation(tzMinutes) ==
  [sign |-> IF tzMinutes >= 0 THEN "+" ELSE "-",
   hh |-> pad(Abs(tzMinutes) \div 60),
   mm |-> pad(Abs(tzMinutes) % 60)]

\* lines 13-20: `${sign}${hh}:${mm}`
formatOffset(tzMinutes) ==
  LET total == -tzMinutes
  IN [sign |-> IF total >= 0 THEN "+" ELSE "-",
      hh |-> pad(Abs(total) \div 60),
      mm |-> pad(Abs(total) % 60)]

\* lines 462-467: the GMT suffix of the second component's ticker, hours unpadded
LiveTimeGmt(offsetMinutes) ==
  [sign |-> IF offsetMinutes > 0 THEN "-" ELSE "+",
   hh |-> Digits(Abs(offsetMinutes) \div 60),
   mm |-> pad(Abs(offsetMinutes) % 60)]

\* HourOf12 without  if (h === 0) h = 12
HourOf12_NoTwelve(h) == h % 12

\* lines 26-27: h = h % 12; if (h === 0) h = 12
HourOf12(h) == IF h % 12 = 0 THEN 12 ELSE h % 12

\* lines 21-29: `${pad(h)}:${m}:${s} ${ampm}`
to12HourWithSeconds(date) ==
  [hh |-> pad(HourOf12(date.hours)),
   mm |-> pad(date.minutes),
   ss |-> pad(date.seconds),
   ampm |-> IF date.hours >= 12 THEN "PM" ELSE "AM"]

(***************************************************************************)
(* Stamp layout and text wrapping, lines 218-244.                          *)
(***************************************************************************)

\* Math.round(num / den) for num >= 0, den > 0: halves round up
Round(num, den) == (2 * num + den) \div (2 * den)

\* stampH without the 220 cap
stampH_NoCap(canvasH) == Round(22 * canvasH, 100)

\* line 241: Math.round(Math.min(canvasH * 0.22, 220)); 0.22 is 22/100, and the
\* double product is exact enough that every half rounds as the rational does
stampH(canvasH) == IF 22 * canvasH >= 22000 THEN 220 ELSE Round(22 * canvasH, 100)

\* the smaller of two numbers (Math.min)
Min(a, b) == IF a <= b THEN a ELSE b

\* line 240: Math.round(Math.min(canvasW, canvasH) * 0.03)
margin(canvasW, canvasH) == Round(3 * Min(canvasW, canvasH), 100)

\* line 242: Math.min(canvasW - margin * 2, Math.round(canvasW * 0.86))
stampW(canvasW, canvasH) ==
  Min(canvasW - margin(canvasW, canvasH) * 2, Round(86 * canvasW, 100))

\* lines 243-244
stampX(canvasW, canvasH) == margin(canvasW, canvasH)
stampY(canvasW, canvasH) == canvasH - stampH(canvasH) - margin(canvasW, canvasH)

\* line 254: Math.min(120, stampH - margin * 2)
mapSize(canvasW, canvasH) == Min(120, stampH(canvasH) - margin(canvasW, canvasH) * 2)

\* lines 255-256
mapX(canvasW, canvasH) == stampX(canvasW, canvasH) + margin(canvasW, canvasH)
mapY(canvasW, canvasH) == stampY(canvasW, canvasH) + margin(canvasW, canvasH)

\* line 273
textX(canvasW, canvasH) ==
  mapX(canvasW, canvasH) + mapSize(canvasW, canvasH) + margin(canvasW, canvasH)

\* line 274: stampW - (mapSize + margin * 4)
textWidth(canvasW, canvasH) ==
  stampW(canvasW, canvasH) - (mapSize(canvasW, canvasH) + margin(canvasW, canvasH) * 4)

\* lines 240-256, 272-274: the rectangles drawStampOnCanvas computes for a canvas
StampGeometry(canvasW, canvasH) ==
  [stampX |-> stampX(canvasW, canvasH), stampY |-> stampY(canvasW, canvasH),
   stampW |-> stampW(canvasW, canvasH), stampH |-> stampH(canvasH),
   mapX |-> mapX(canvasW, canvasH), mapY |-> mapY(canvasW, canvasH),
   mapSize |-> mapSize(canvasW, canvasH),
   textX |-> textX(canvasW, canvasH), textWidth |-> textWidth(canvasW, canvasH)]

RECURSIVE SumSeq(_)
SumSeq(q) == IF q = <<>> THEN 0 ELSE Head(q) + SumSeq(Tail(q))

\* line 224: ctx.measureText(testLine).width of words joined by one space; a
\* word is its width, a space is one unit wide
measureText(line) == IF line = <<>> THEN 0 ELSE SumSeq(line) + Len(line) - 1

\* `line` is a non-empty string
LineTruthy(line) == measureText(line) > 0

\* the loop body with  line = ""  after a flush
WrapStep_DropWord(st, word, maxWidth, lineHeight) ==
  LET testLine == IF LineTruthy(st.line) THEN Append(st.line, word) ELSE <<word>>
  IN IF measureText(testLine) > maxWidth /\ LineTruthy(st.line)
     THEN [line |-> <<>>, curY |-> st.curY + lineHeight,
           out |-> Append(st.out, [text |-> st.line, y |-> st.curY])]
     ELSE [line |-> testLine, curY |-> st.curY, out |-> st.out]

\* lines 223-232: one pass of the loop body
WrapStep(st, word, maxWidth, lineHeight) ==
  LET testLine == IF LineTruthy(st.line) THEN Append(st.line, word) ELSE <<word>>
  IN IF measureText(testLine) > maxWidth /\ LineTruthy(st.line)
     THEN [line |-> <<word>>, curY |-> st.curY + lineHeight,
           out |-> Append(st.out, [text |-> st.line, y |-> st.curY])]
     ELSE [line |-> testLine, curY |-> st.curY, out |-> st.out]

RECURSIVE WrapLoop(_, _, _, _)
\* lines 222-232: for (let n = 0; n < words.length; n++)
WrapLoop(st, words, maxWidth, lineHeight) ==
  IF words = <<>> THEN st
  ELSE WrapLoop(WrapStep(st, Head(words), maxWidth, lineHeight), Tail(words),
                maxWidth, lineHeight)

\* lines 218-235: the fillText calls made, and the returned curY
wrapText(words, y, maxWidth, lineHeight) ==
  LET st == WrapLoop([line |-> <<>>, curY |-> y, out |-> <<>>], words, maxWidth, lineHeight)
  IN [lines |-> IF LineTruthy(st.line)
                THEN Append(st.out, [text |-> st.line, y |-> st.curY])
                ELSE st.out,
      curY |-> st.curY]

(***************************************************************************)
(* The environment's answers: what the providers, the position source and  *)
(* the frame source can deliver.                                           *)
(***************************************************************************)

FieldValue ==
  [f \in AddressFields |->
     CASE f = "attraction" -> "Landmark X"
       [] f = "building" -> "Tower B"
       [] f = "leisure" -> "City Park"
       [] f = "amenity" -> "Cafe A"
       [] f = "poi" -> "Statue P"
       [] f = "town" -> "Smalltown"
       [] f = "village" -> "Hamlet"
       [] f = "city" -> "Townsville"
       [] f = "suburb" -> "Westside"
       [] f = "neighbourhood" -> "Old Quarter"
       [] f = "road" -> "Main St"
       [] f = "state" -> "State S"
       [] f = "postcode" -> "12345"
       [] OTHER -> "Country Y"]

AddressWith(present) ==
  [f \in AddressFields |-> IF f \in present THEN <<FieldValue[f]>> ELSE Undefined]

ShortDisplay == <<"12 Main St", "Townsville", "Country Y">>
LongDisplay == <<"The Extremely Long Official Name Of A Place Nobody Abbreviates", "Townsville">>

\* the fallback answers with an address: <<name, display_name, the address fields present>>
NominatimCases ==
  { <<Undefined, Undefined, {"attraction", "road", "city", "country"}>>,
    <<Undefined, ShortDisplay, {"attraction", "road", "city", "country"}>>,
    <<<<"Named Point">>, ShortDisplay,
      {"road", "neighbourhood", "suburb", "city", "town", "village", "state", "postcode", "country"}>>,
    <<Undefined, LongDisplay, {"building", "suburb", "town", "postcode"}>>,
    <<Undefined, Undefined, {"leisure", "amenity", "poi", "village", "state"}>> }

\* JSON null
NullNominatim ==
  [isNull |-> TRUE, name |-> Undefined, display_name |-> Undefined,
   hasAddress |-> FALSE, address |-> NoAddress]

\* {"error": "Unable to geocode"}: an object with no address fields
ErrorNominatim ==
  [isNull |-> FALSE, name |-> Undefined, display_name |-> Undefined,
   hasAddress |-> FALSE, address |-> NoAddress]

NominatimPayloads ==
  { [isNull |-> FALSE, name |-> nc[1], display_name |-> nc[2],
     hasAddress |-> TRUE, address |-> AddressWith(nc[3])] : nc \in NominatimCases }
  \cup {NullNominatim, ErrorNominatim}

PlainResult ==
  [types |-> {"street_address"},
   formatted_address |-> <<"10 Main St", "Townsville", "Country Y">>,
   hasComponents |-> TRUE, components |-> << <<"10">>, <<"Main St">> >>]

PlaceResult ==
  [types |-> {"establishment", "point_of_interest"},
   formatted_address |-> <<"Landmark X", "Main St", "Townsville">>,
   hasComponents |-> TRUE, components |-> << <<"Landmark X">> >>]

PlaceNoAddressResult ==
  [types |-> {"point_of_interest"}, formatted_address |-> Undefined,
   hasComponents |-> TRUE, components |-> << <<"Statue P">> >>]

PlaceBareResult ==
  [types |-> {"establishment"}, formatted_address |-> Undefined,
   hasComponents |-> TRUE, components |-> <<>>]

GoogleResults == {PlainResult, PlaceResult, PlaceNoAddressResult, PlaceBareResult}

\* the longest result list a primary answer carries
MaxResults == 2

ResultLists == UNION { [1..n -> GoogleResults] : n \in 0..MaxResults }

NullGoogle == [isNull |-> TRUE, status |-> "", hasResults |-> FALSE, results |-> <<>>]

GooglePayloads ==
  { [isNull |-> FALSE, status |-> "OK", hasResults |-> TRUE, results |-> rs] :
       rs \in ResultLists }
  \cup { [isNull |-> FALSE, status |-> "OK", hasResults |-> FALSE, results |-> <<>>],
         [isNull |-> FALSE, status |-> "ZERO_RESULTS", hasResults |-> TRUE, results |-> <<>>],
         NullGoogle }

\* An answer to a fetch: the request fails ("network"), the body is not JSON
\* ("parse"), or res.json() yields a payload ("json").
NoPrimaryAnswer == [kind |-> "none", data |-> NullGoogle]
PrimaryAnswers ==
  { [kind |-> k, data |-> NullGoogle] : k \in {"network", "parse"} }
  \cup { [kind |-> "json", data |-> d] : d \in GooglePayloads }

NoFallbackAnswer == [kind |-> "none", data |-> NullNominatim]
FallbackAnswers ==
  { [kind |-> k, data |-> NullNominatim] : k \in {"network", "parse"} }
  \cup { [kind |-> "json", data |-> d] : d \in NominatimPayloads }

\* positions in micro-degrees: <<latitude, longitude>>
Fixes == { <<37422000, -122084000>>, <<0, 78500000>> }

\* coords === null
NoCoords == <<>>

\* native frame sizes <<videoWidth, videoHeight>>
FrameSizes == { <<1920, 1080>>, <<400, 300>> }

\* device orientation angles
Angles == {0, 90, 180, 270}

(***************************************************************************)
(* State.                                                                  *)
(***************************************************************************)

\* the number of captures of a session the model follows
MaxCaptures == 2

Captures == 1..MaxCaptures

VARIABLES
  variant,        \* 1: lines 71-426, 2: lines 430-612
  googleKey,      \* GOOGLE_KEY is set (line 10)
  camera,         \* getUserMedia: "idle", "asking", "granted", "refused"
  streaming,      \* useState streaming
  alerts,         \* the alert() dialogs shown, in order
  videoSize,      \* <<video.videoWidth, video.videoHeight>>, <<0, 0>> before the first frame
  geo,            \* the location flow: "idle", "locating", "primary", "fallback", "done"
  coords,         \* useState coords
  landmark,       \* useState landmark (variant 1)
  line2,          \* useState line2 (variant 1)
  addressRaw,     \* useState addressRaw (variant 1)
  address,        \* useState address (variant 2): the lines a "\n" separates
  mapUrl,         \* useState mapUrl (variant 2): "" or the fix the URL is built for
  queries,        \* the geocoding requests sent, in order
  primaryAnswer,  \* what the primary provider answered
  fallbackAnswer, \* what the fallback provider answered
  canvas,         \* the one hidden <canvas>: width, height, what is drawn on it
  captures,       \* per capture: where its handler stands and the state its closure holds
  exports,        \* the downloads triggered, in order
  mapRequests,    \* the map image requests sent
  calc,           \* the last helper call made on its own: function, arguments, result
  now,            \* Date.now(), in clock units since the page loaded
  timeString,     \* useState timeString: "" or the instant the ticker last rendered
  mounted,        \* the component is mounted
  ticker,         \* the setInterval of the time effect: "unset", "running", "cleared"
  tracks,         \* the MediaStream's tracks: "none", "live", "stopped"
  pending,        \* further startCamera calls whose getUserMedia has not settled
  writes          \* per state field, the number of times a setter was called on it

envVars == <<variant, googleKey>>
cameraVars == <<camera, streaming, alerts, videoSize>>
placeVars == <<coords, landmark, line2, addressRaw, address, mapUrl>>
geoVars == <<geo, queries, primaryAnswer, fallbackAnswer>>
captureVars == <<canvas, captures, exports, mapRequests>>
clockVars == <<now, timeString>>
lifeVars == <<mounted, ticker, tracks, pending>>
vars == <<envVars, cameraVars, placeVars, geoVars, captureVars, calc, clockVars, lifeVars, writes>>

\* the state a handler's closure holds: the render it was created in
Snapshot ==
  [coords |-> coords, landmark |-> landmark, line2 |-> line2,
   addressRaw |-> addressRaw, address |-> address, mapUrl |-> mapUrl,
   timeString |-> timeString]

NoSnapshot ==
  [coords |-> NoCoords, landmark |-> Empty, line2 |-> Empty,
   addressRaw |-> Empty, address |-> <<>>, mapUrl |-> NoCoords, timeString |-> Empty]

\* no helper call made yet
NoCalc == [fn |-> "none", in |-> <<>>, out |-> <<>>]

IdleCapture ==
  [pc |-> "idle", load |-> "none", hadFrame |-> FALSE, at |-> 0, snap |-> NoSnapshot]

\* the state fields a setter exists for
StateFields == {"coords", "landmark", "line2", "addressRaw", "address", "mapUrl"}

\* writes after one setter call on each of the given fields
Wrote(fields) == [f \in StateFields |-> IF f \in fields THEN writes[f] + 1 ELSE writes[f]]

Init ==
  /\ variant \in {1, 2}
  /\ googleKey \in (IF variant = 1 THEN BOOLEAN ELSE {FALSE})
  /\ camera = "idle"
  /\ streaming = FALSE
  /\ alerts = <<>>
  /\ videoSize = <<0, 0>>
  /\ geo = "idle"
  /\ coords = NoCoords
  /\ landmark = Empty
  /\ line2 = Empty
  /\ addressRaw = <<"Loading address...">>
  /\ address = << <<"Loading address...">> >>
  /\ mapUrl = NoCoords
  /\ queries = <<>>
  /\ primaryAnswer = NoPrimaryAnswer
  /\ fallbackAnswer = NoFallbackAnswer
  /\ canvas = [width |-> 300, height |-> 150, layers |-> <<>>]
  /\ captures = [c \in Captures |-> IdleCapture]
  /\ exports = <<>>
  /\ mapRequests = 0
  /\ calc = NoCalc
  /\ now = 0
  /\ timeString = Empty
  /\ mounted = TRUE
  /\ ticker = (IF variant = 1 THEN "running" ELSE "unset")
  /\ tracks = "none"
  /\ pending = 0
  /\ writes = [f \in StateFields |-> 0]

(***************************************************************************)
(* Variant 1: startCamera, lines 105-180.                                  *)
(***************************************************************************)

\* line 409: the Start Camera button, shown while not streaming
StartCamera ==
  /\ mounted
  /\ variant = 1
  /\ ~streaming
  /\ camera = "idle"
  /\ camera' = "asking"
  /\ UNCHANGED <<envVars, calc, clockVars, lifeVars, writes, streaming, alerts, videoSize, placeVars, geoVars, captureVars>>

\* lines 108-176: getUserMedia resolves; geolocation is requested, or is not there
CameraGranted ==
  /\ variant = 1
  /\ camera = "asking"
  /\ camera' = "granted"
  /\ streaming' = TRUE
  /\ tracks' = "live"
  /\ \E supported \in BOOLEAN :
       IF supported
       THEN /\ geo' = "locating"
            /\ UNCHANGED <<addressRaw, writes>>
       ELSE /\ geo' = "done"
            /\ addressRaw' = <<"Location not available">>
            /\ writes' = Wrote({"addressRaw"})
  /\ UNCHANGED <<envVars, calc, clockVars, mounted, ticker, pending, alerts, videoSize, coords, landmark, line2, address, mapUrl,
                 queries, primaryAnswer, fallbackAnswer, captureVars>>

\* lines 177-179: getUserMedia rejects
CameraRefused ==
  /\ variant = 1
  /\ camera = "asking"
  /\ camera' = "refused"
  /\ alerts' = Append(alerts, "Camera access error")
  /\ UNCHANGED <<envVars, calc, clockVars, lifeVars, writes, streaming, videoSize, placeVars, geoVars, captureVars>>

\* lines 122-131, 148-149: the position arrives; the first provider is queried
PositionSuccess ==
  /\ variant = 1
  /\ geo = "locating"
  /\ \E fix \in Fixes : coords' = fix
  /\ IF googleKey
     THEN geo' = "primary" /\ queries' = Append(queries, "google")
     ELSE geo' = "fallback" /\ queries' = Append(queries, "osm")
  /\ writes' = Wrote({"coords"})
  /\ UNCHANGED <<envVars, calc, clockVars, lifeVars, cameraVars, landmark, line2, addressRaw, address, mapUrl,
                 primaryAnswer, fallbackAnswer, captureVars>>

\* lines 170-174
PositionError ==
  /\ variant = 1
  /\ geo = "locating"
  /\ geo' = "done"
  /\ addressRaw' = <<"Location denied / unavailable">>
  /\ line2' = Empty
  /\ landmark' = Empty
  /\ writes' = Wrote({"addressRaw", "line2", "landmark"})
  /\ UNCHANGED <<envVars, calc, clockVars, lifeVars, cameraVars, coords, address, mapUrl,
                 queries, primaryAnswer, fallbackAnswer, captureVars>>

\* line 133-134: the OK branch is entered and extractGoogleLandmark returns
PrimaryAccepted(ans) ==
  /\ ans.kind = "json"
  /\ ~ans.data.isNull
  /\ ans.data.status = "OK"
  /\ extractGoogleLandmark(ans.data) # Thrown

\* line 135: setLandmark(lm || "")
PrimaryLandmark(data) == Or(extractGoogleLandmark(data), Empty)

\* lines 131-149: the primary provider answers
PrimaryAnswer ==
  /\ variant = 1
  /\ geo = "primary"
  /\ \E ans \in PrimaryAnswers :
       /\ primaryAnswer' = ans
       /\ IF PrimaryAccepted(ans)
          THEN /\ landmark' = PrimaryLandmark(ans.data)
               /\ line2' = GoogleLine2(ans.data)
               /\ addressRaw' = GoogleLine2(ans.data)
               /\ geo' = "done"
               /\ UNCHANGED queries
               /\ writes' = Wrote({"landmark", "line2", "addressRaw"})
          ELSE /\ geo' = "fallback"
               /\ queries' = Append(queries, "osm")
               /\ UNCHANGED <<landmark, line2, addressRaw, writes>>
  /\ UNCHANGED <<envVars, calc, clockVars, lifeVars, cameraVars, coords, address, mapUrl, fallbackAnswer, captureVars>>

\* lines 150-153: the try block runs to its end (j.address of null throws)
FallbackAccepted(ans) == ans.kind = "json" /\ ~ans.data.isNull

\* line 152: setLandmark(lm || "")
FallbackLandmark(j) == Or(extractNominatimLandmark(j), Empty)

\* FallbackAddressRaw without the  || parts.join(", ")
FallbackAddressRaw_NoDefault(j) == j.display_name

\* line 163: setAddressRaw(j.display_name || parts.join(", "))
FallbackAddressRaw(j) == Or(j.display_name, NominatimLine2(AddressOf(j)))

\* lines 149-168: the fallback provider answers
FallbackAnswer ==
  /\ variant = 1
  /\ geo = "fallback"
  /\ \E ans \in FallbackAnswers :
       /\ fallbackAnswer' = ans
       /\ IF FallbackAccepted(ans)
          THEN /\ landmark' = FallbackLandmark(ans.data)
               /\ line2' = NominatimLine2(AddressOf(ans.data))
               /\ addressRaw' = FallbackAddressRaw(ans.data)
          ELSE /\ addressRaw' = <<"Unable to fetch address">>
               /\ line2' = Empty
               /\ landmark' = Empty
  /\ geo' = "done"
  /\ writes' = Wrote({"landmark", "line2", "addressRaw"})
  /\ UNCHANGED <<envVars, calc, clockVars, lifeVars, cameraVars, coords, address, mapUrl,
                 queries, primaryAnswer, captureVars>>

(***************************************************************************)
(* Variant 2: startCamera and fetchLocation, lines 441-523.                *)
(***************************************************************************)

\* lines 520-523, 441-446, 474-479: the mount effect starts both
MountEffect ==
  /\ mounted
  /\ variant = 2
  /\ camera = "idle"
  /\ camera' = "asking"
  /\ ticker' = "running"
  /\ \E supported \in BOOLEAN :
       IF supported
       THEN /\ geo' = "locating"
            /\ UNCHANGED <<address, writes>>
       ELSE /\ geo' = "done"
            /\ address' = << <<"Geolocation not supported">> >>
            /\ writes' = Wrote({"address"})
  /\ UNCHANGED <<envVars, calc, clockVars, mounted, tracks, pending, streaming, alerts, videoSize, coords, landmark, line2,
                 addressRaw, mapUrl, queries, primaryAnswer, fallbackAnswer, captureVars>>

\* lines 447-450
CameraGranted2 ==
  /\ variant = 2
  /\ camera = "asking"
  /\ camera' = "granted"
  /\ streaming' = TRUE
  /\ tracks' = "live"
  /\ UNCHANGED <<envVars, calc, clockVars, mounted, ticker, pending, writes, alerts, videoSize, placeVars, geoVars, captureVars>>

\* lines 451-453
CameraRefused2 ==
  /\ variant = 2
  /\ camera = "asking"
  /\ camera' = "refused"
  /\ alerts' = Append(alerts, "Camera error")
  /\ UNCHANGED <<envVars, calc, clockVars, lifeVars, writes, streaming, videoSize, placeVars, geoVars, captureVars>>

\* lines 480-488
PositionSuccess2 ==
  /\ variant = 2
  /\ geo = "locating"
  /\ \E fix \in Fixes : coords' = fix
  /\ geo' = "fallback"
  /\ queries' = Append(queries, "osm")
  /\ writes' = Wrote({"coords"})
  /\ UNCHANGED <<envVars, calc, clockVars, lifeVars, cameraVars, landmark, line2, addressRaw, address, mapUrl,
                 primaryAnswer, fallbackAnswer, captureVars>>

\* lines 513-515
PositionError2 ==
  /\ variant = 2
  /\ geo = "locating"
  /\ geo' = "done"
  /\ address' = << <<"Location error">> >>
  /\ writes' = Wrote({"address"})
  /\ UNCHANGED <<envVars, calc, clockVars, lifeVars, cameraVars, coords, landmark, line2, addressRaw, mapUrl,
                 queries, primaryAnswer, fallbackAnswer, captureVars>>

\* lines 489-503: `${line1}\n${line2}`
FetchLocationAddress(data) ==
  << FetchLocationLine1(AddressOf(data)), FetchLocationLine2(AddressOf(data)) >>

\* lines 486-511: the provider answers; the map URL is set whatever it answered
FallbackAnswer2 ==
  /\ variant = 2
  /\ geo = "fallback"
  /\ \E ans \in FallbackAnswers :
       /\ fallbackAnswer' = ans
       /\ address' = IF FallbackAccepted(ans)
                     THEN FetchLocationAddress(ans.data)
                     ELSE << <<"Address not found">> >>
  /\ mapUrl' = coords
  /\ geo' = "done"
  /\ writes' = Wrote({"address", "mapUrl"})
  /\ UNCHANGED <<envVars, calc, clockVars, lifeVars, cameraVars, coords, landmark, line2, addressRaw,
                 queries, primaryAnswer, captureVars>>

(***************************************************************************)
(* The frame source.                                                       *)
(***************************************************************************)

\* the <video> element decodes the stream's first frame (autoplay, lines 388-395, 583-588)
FirstFrame ==
  /\ camera = "granted"
  /\ videoSize = <<0, 0>>
  /\ \E size \in FrameSizes : videoSize' = size
  /\ UNCHANGED <<envVars, calc, clockVars, lifeVars, writes, camera, streaming, alerts, placeVars, geoVars, captureVars>>

(***************************************************************************)
(* Capture: what is drawn on the canvas and what is downloaded.            *)
(***************************************************************************)

\* lines 321-322: video.videoWidth || 1280, video.videoHeight || 720
DefaultWidth == 1280
DefaultHeight == 720

\* line 534: the strip capturePhoto adds below the frame
PanelStrip == 180

\* one draw on the canvas: what it is, the capture that drew it, the text it carries
Layer(kind, c) ==
  [kind |-> kind, by |-> c, l1 |-> Empty, l2 |-> Empty, fix |-> NoCoords,
   coord |-> [form |-> "none", digits |-> 0, lat |-> 0, lon |-> 0], time |-> Empty]

\* line 327 / 537: ctx.drawImage(video, ...); before the first frame there is nothing to draw
FrameLayer(c) == Layer(IF videoSize = <<0, 0>> THEN "noframe" ELSE "frame", c)

\* lines 184, 259: lat && lon ? buildMapUrl(lat, lon, ...) : null
HasMapUrl(fix) == fix # NoCoords /\ fix[1] # 0 /\ fix[2] # 0

\* line 280
StampLine1(snap) ==
  Or(snap.landmark,
     IF Truthy(snap.addressRaw) THEN FirstSegment(snap.addressRaw) ELSE <<"Unknown location">>)

\* line 286
StampLine2(snap) == Or(snap.line2, Or(snap.addressRaw, Empty))

\* x.toFixed(digits) of a coordinate held in micro-degrees: the value rounded
\* to that many decimals, in micro-degrees
toFixed(micro, digits) ==
  LET unit == IF digits >= 6 THEN 1 ELSE 10
      mag == Round(Abs(micro), unit) * unit
  IN IF micro >= 0 THEN mag ELSE -mag

\* a coordinate text: its form ("numbers", "dashes", or "none" when no text is
\* drawn), the decimals shown and the two values shown
CoordText(form, digits, lat, lon) == [form |-> form, digits |-> digits, lat |-> lat, lon |-> lon]

\* line 291: lat ? `Lat ${lat.toFixed(6)}° Long ${lon.toFixed(6)}°` : "Lat — Long —"
latLonStr(fix) ==
  IF fix # NoCoords /\ fix[1] # 0
  THEN CoordText("numbers", 6, toFixed(fix[1], 6), toFixed(fix[2], 6))
  ELSE CoordText("dashes", 0, 0, 0)

\* lines 557-563: if (coords) fillText(`Lat: ${toFixed(5)}°, Lon: ${toFixed(5)}°`)
CoordLine2(fix) ==
  IF fix # NoCoords
  THEN CoordText("numbers", 5, toFixed(fix[1], 5), toFixed(fix[2], 5))
  ELSE CoordText("none", 0, 0, 0)

\* TextLayer drawing the ticker's value at the time of drawing
TextLayer_LiveClock(c, snap) ==
  [kind |-> "text", by |-> c, l1 |-> StampLine1(snap), l2 |-> StampLine2(snap),
   fix |-> snap.coords, coord |-> latLonStr(snap.coords), time |-> timeString]

\* lines 275-293: the text block of drawStampOnCanvas; line 293 draws the
\* timeString of the render the handler was created in
TextLayer(c, snap) ==
  [kind |-> "text", by |-> c, l1 |-> StampLine1(snap), l2 |-> StampLine2(snap),
   fix |-> snap.coords, coord |-> latLonStr(snap.coords), time |-> snap.timeString]

\* lines 550-565: the text block of capturePhoto, one line per "\n" of address
TextLayer2(c, snap) ==
  [kind |-> "text", by |-> c,
   l1 |-> snap.address[1],
   l2 |-> IF Len(snap.address) >= 2 THEN snap.address[2] ELSE Empty,
   fix |-> snap.coords, coord |-> CoordLine2(snap.coords), time |-> snap.timeString]

\* line 336: `geo-stamped-${Date.now()}.jpg`; line 572: "geo-stamped-photo.png"
FileName == IF variant = 1 THEN <<"geo-stamped-", now, ".jpg">> ELSE <<"geo-stamped-photo.png">>

\* lines 333-339 / 571-574: canvas.toDataURL and the download of it, by a capture
\* requested at the instant `at` in a render that held the values `snap`
Export(c, cv, hadFrame, at, snap) ==
  [by |-> c, width |-> cv.width, height |-> cv.height, layers |-> cv.layers,
   hadFrame |-> hadFrame, name |-> FileName,
   requestedAt |-> at, clockAtRequest |-> snap.timeString, clockAtExport |-> timeString]

\* the capture the next click starts
NextCapture == CHOOSE c \in Captures : captures[c].pc = "idle" /\ \A k \in 1..(c - 1) : captures[k].pc # "idle"

CanCapture == \E c \in Captures : captures[c].pc = "idle"

HasFrame == videoSize # <<0, 0>>

\* lines 321-324: the canvas size captureAndDownload sets for a frame of the given
\* size, the device being held at the given angle.  No line reads an orientation
\* signal, so the size is the same at every angle.
CanvasSize(size, angle) ==
  << IF size[1] # 0 THEN size[1] ELSE DefaultWidth,
     IF size[2] # 0 THEN size[2] ELSE DefaultHeight >>

\* lines 315-327, 240-251: size the canvas, draw the frame and the panel
StartedCanvas1(c, angle) ==
  [width |-> CanvasSize(videoSize, angle)[1],
   height |-> CanvasSize(videoSize, angle)[2],
   layers |-> << FrameLayer(c), Layer("panel", c) >>]

\* lines 262-266: what the map step draws once loadImage has settled
MapStepLayers(c, loaded) == IF loaded THEN << Layer("map", c) >> ELSE <<>>

\* lines 272-310: text and badge, after the map step
FinishedCanvas1(c, cv, mapLayers, snap) ==
  [cv EXCEPT !.layers = cv.layers \o mapLayers \o << TextLayer(c, snap), Layer("badge", c) >>]

\* lines 314-340 with 238-311, up to the await of loadImage (line 262) when there
\* is a map URL, else to the end
CaptureAndDownload ==
  /\ mounted
  /\ variant = 1
  /\ streaming
  /\ CanCapture
  /\ \E angle \in Angles :
     LET c == NextCapture
         cv == StartedCanvas1(c, angle)
         done == FinishedCanvas1(c, cv, << Layer("placeholder", c) >>, Snapshot)
     IN IF HasMapUrl(coords)
        THEN /\ canvas' = cv
             /\ captures' = [captures EXCEPT ![c] =
                  [pc |-> "loading", load |-> "pending", hadFrame |-> HasFrame, at |-> now, snap |-> Snapshot]]
             /\ mapRequests' = mapRequests + 1
             /\ UNCHANGED exports
        ELSE /\ canvas' = done
             /\ captures' = [captures EXCEPT ![c] =
                  [pc |-> "done", load |-> "none", hadFrame |-> HasFrame, at |-> 0, snap |-> NoSnapshot]]
             /\ exports' = Append(exports, Export(c, done, HasFrame, now, Snapshot))
             /\ UNCHANGED mapRequests
  /\ UNCHANGED <<envVars, calc, clockVars, lifeVars, writes, cameraVars, placeVars, geoVars>>

\* lines 199, 262-263, 272-339: the image loads; the rest of the stamp is drawn on
\* the canvas as it is now, and the canvas is downloaded
MapLoaded(c) ==
  /\ variant = 1
  /\ captures[c].pc = "loading"
  /\ LET done == FinishedCanvas1(c, canvas, MapStepLayers(c, TRUE), captures[c].snap)
     IN /\ canvas' = done
        /\ exports' = Append(exports, Export(c, done, captures[c].hadFrame, captures[c].at, captures[c].snap))
  /\ captures' = [captures EXCEPT ![c] =
       [pc |-> "done", load |-> "image", hadFrame |-> captures[c].hadFrame, at |-> 0,
        snap |-> NoSnapshot]]
  /\ UNCHANGED <<envVars, calc, clockVars, lifeVars, writes, cameraVars, placeVars, geoVars, mapRequests>>

\* lines 200, 264-266, 272-339: the image fails to load; loadImage rejects, the
\* catch block draws nothing
MapFailed(c) ==
  /\ variant = 1
  /\ captures[c].pc = "loading"
  /\ LET done == FinishedCanvas1(c, canvas, MapStepLayers(c, FALSE), captures[c].snap)
     IN /\ canvas' = done
        /\ exports' = Append(exports, Export(c, done, captures[c].hadFrame, captures[c].at, captures[c].snap))
  /\ captures' = [captures EXCEPT ![c] =
       [pc |-> "done", load |-> "rejected", hadFrame |-> captures[c].hadFrame, at |-> 0,
        snap |-> NoSnapshot]]
  /\ UNCHANGED <<envVars, calc, clockVars, lifeVars, writes, cameraVars, placeVars, geoVars, mapRequests>>

\* lines 533-541: size the canvas, draw the frame and the panel strip
StartedCanvas2(c) ==
  [width |-> videoSize[1],
   height |-> videoSize[2] + PanelStrip,
   layers |-> << FrameLayer(c), Layer("panel", c) >>]

\* lines 526-577, up to img.src = mapUrl; an empty src loads nothing
CapturePhoto ==
  /\ mounted
  /\ variant = 2
  /\ camera # "idle"
  /\ CanCapture
  /\ LET c == NextCapture
     IN /\ canvas' = StartedCanvas2(c)
        /\ IF mapUrl # NoCoords
           THEN /\ captures' = [captures EXCEPT ![c] =
                     [pc |-> "loading", load |-> "pending", hadFrame |-> HasFrame, at |-> now, snap |-> Snapshot]]
                /\ mapRequests' = mapRequests + 1
           ELSE /\ captures' = [captures EXCEPT ![c] =
                     [pc |-> "done", load |-> "error", hadFrame |-> HasFrame, at |-> 0, snap |-> NoSnapshot]]
                /\ UNCHANGED mapRequests
  /\ UNCHANGED <<envVars, calc, clockVars, lifeVars, writes, cameraVars, placeVars, geoVars, exports>>

\* lines 546-575: img.onload draws the map, the text and the label, and downloads
MapLoaded2(c) ==
  /\ variant = 2
  /\ captures[c].pc = "loading"
  /\ LET done == [canvas EXCEPT !.layers =
                    canvas.layers \o << Layer("map", c), TextLayer2(c, captures[c].snap),
                                        Layer("badge", c) >>]
     IN /\ canvas' = done
        /\ exports' = Append(exports, Export(c, done, captures[c].hadFrame, captures[c].at, captures[c].snap))
  /\ captures' = [captures EXCEPT ![c] =
       [pc |-> "done", load |-> "image", hadFrame |-> captures[c].hadFrame, at |-> 0,
        snap |-> NoSnapshot]]
  /\ UNCHANGED <<envVars, calc, clockVars, lifeVars, writes, cameraVars, placeVars, geoVars, mapRequests>>

\* lines 544-576: the image fails to load; no onerror handler is set
MapFailed2(c) ==
  /\ variant = 2
  /\ captures[c].pc = "loading"
  /\ captures' = [captures EXCEPT ![c] =
       [pc |-> "done", load |-> "error", hadFrame |-> captures[c].hadFrame, at |-> 0,
        snap |-> NoSnapshot]]
  /\ UNCHANGED <<envVars, calc, clockVars, lifeVars, writes, cameraVars, placeVars, geoVars, canvas, exports, mapRequests>>

(***************************************************************************)
(* The clock, the ticker and the end of the session.                       *)
(***************************************************************************)

\* the last instant followed; the clock counts in ticker periods (seconds)
MaxNow == 2

\* a second passes with no interval set or after it was cleared
TimePasses ==
  /\ ticker # "running"
  /\ now < MaxNow
  /\ now' = now + 1
  /\ UNCHANGED <<envVars, calc, timeString, lifeVars, writes, cameraVars, placeVars, geoVars,
                 captureVars>>

\* lines 94-100 / 458-469: a second passes and the interval callback renders the
\* new instant
Tick ==
  /\ ticker = "running"
  /\ now < MaxNow
  /\ now' = now + 1
  /\ timeString' = <<now + 1>>
  /\ UNCHANGED <<envVars, calc, lifeVars, writes, cameraVars, placeVars, geoVars,
                 captureVars>>

\* lines 101 / 470: the component unmounts; the one cleanup there is clears the
\* interval.  No cleanup stops the stream's tracks.
Unmount ==
  /\ mounted
  /\ ticker = "running"
  /\ mounted' = FALSE
  /\ ticker' = "cleared"
  /\ UNCHANGED <<envVars, calc, clockVars, tracks, pending, writes, cameraVars, placeVars,
                 geoVars, captureVars>>

\* the further Start Camera clicks followed
MaxRestarts == 1

\* line 409: Start Camera clicked again while getUserMedia is still pending; the
\* button is shown until streaming is set (line 113)
StartCameraAgain ==
  /\ variant = 1
  /\ mounted
  /\ ~streaming
  /\ camera = "asking"
  /\ pending < MaxRestarts
  /\ pending' = pending + 1
  /\ UNCHANGED <<envVars, calc, clockVars, mounted, ticker, tracks, writes, cameraVars,
                 placeVars, geoVars, captureVars>>

\* lines 108-121: the getUserMedia of a further startCamera call resolves, here
\* after the first call's location flow has ended; it asks for the position again
CameraGrantedAgain ==
  /\ variant = 1
  /\ pending > 0
  /\ camera = "granted"
  /\ geo = "done"
  /\ pending' = pending - 1
  /\ \E supported \in BOOLEAN :
       IF supported
       THEN /\ geo' = "locating"
            /\ UNCHANGED <<addressRaw, writes>>
       ELSE /\ geo' = "done"
            /\ addressRaw' = <<"Location not available">>
            /\ writes' = Wrote({"addressRaw"})
  /\ UNCHANGED <<envVars, calc, clockVars, mounted, ticker, tracks, cameraVars, coords,
                 landmark, line2, address, mapUrl, queries, primaryAnswer, fallbackAnswer,
                 captureVars>>

(***************************************************************************)
(* The session.                                                            *)
(***************************************************************************)

Next ==
  \/ StartCamera
  \/ CameraGranted
  \/ CameraRefused
  \/ PositionSuccess
  \/ PositionError
  \/ PrimaryAnswer
  \/ FallbackAnswer
  \/ MountEffect
  \/ CameraGranted2
  \/ CameraRefused2
  \/ PositionSuccess2
  \/ PositionError2
  \/ FallbackAnswer2
  \/ FirstFrame
  \/ CaptureAndDownload
  \/ \E c \in Captures : MapLoaded(c)
  \/ \E c \in Captures : MapFailed(c)
  \/ CapturePhoto
  \/ \E c \in Captures : MapLoaded2(c)
  \/ \E c \in Captures : MapFailed2(c)

Spec == Init /\ [][Next]_vars

\* the capture pipeline with the ticker running; the geocoders of the first
\* component are left pending
ClockNext ==
  \/ Tick
  \/ StartCamera
  \/ CameraGranted
  \/ CameraRefused
  \/ PositionSuccess
  \/ PositionError
  \/ MountEffect
  \/ CameraGranted2
  \/ CameraRefused2
  \/ PositionSuccess2
  \/ PositionError2
  \/ FallbackAnswer2
  \/ FirstFrame
  \/ CaptureAndDownload
  \/ \E c \in Captures : MapLoaded(c)
  \/ \E c \in Captures : MapFailed(c)
  \/ CapturePhoto
  \/ \E c \in Captures : MapLoaded2(c)
  \/ \E c \in Captures : MapFailed2(c)

ClockSpec == Init /\ [][ClockNext]_vars

\* the session from mount to unmount: the ticker, the stream and the location
\* flow, with Start Camera clicked more than once
SessionNext ==
  \/ TimePasses
  \/ Tick
  \/ Unmount
  \/ StartCamera
  \/ StartCameraAgain
  \/ CameraGranted
  \/ CameraGrantedAgain
  \/ CameraRefused
  \/ PositionSuccess
  \/ PositionError
  \/ PrimaryAnswer
  \/ FallbackAnswer
  \/ MountEffect
  \/ CameraGranted2
  \/ CameraRefused2
  \/ PositionSuccess2
  \/ PositionError2
  \/ FallbackAnswer2

SessionSpec == Init /\ [][SessionNext]_vars

(***************************************************************************)
(* The helpers on their own: each is applied once to an argument drawn     *)
(* from the values its callers can pass.                                   *)
(***************************************************************************)

\* the largest |getTimezoneOffset()|, in minutes (UTC+14:00)
MaxOffset == 840

Offsets == (-MaxOffset)..MaxOffset

\* the local times of day a Date yields
Dates == [hours : 0..23, minutes : 0..59, seconds : 0..59]

\* canvas sizes <<canvasW, canvasH>> passed to drawStampOnCanvas
MaxCanvasHeight == 1200

CanvasWidths == {400, 1280}

CanvasSizes == CanvasWidths \X (1..MaxCanvasHeight)

\* a narrow canvas width, for portrait frames of small cameras
NarrowWidths == {120}

\* canvas sizes whose stamp geometry is computed
GeometrySizes == (NarrowWidths \cup CanvasWidths) \X (1..MaxCanvasHeight)

\* texts as split(/\s+/) yields them: one to MaxWords words of width up to
\* MaxWordWidth, an empty word only first or last
MaxWords == 4

MaxWordWidth == 3

MaxLineWidth == 6

LineHeights == {2, 3}

Texts ==
  { t \in UNION { [1..n -> 0..MaxWordWidth] : n \in 1..MaxWords } :
      \A k \in 2..(Len(t) - 1) : t[k] # 0 }

ApplyFormatOffset ==
  /\ calc.fn = "none"
  /\ \E m \in Offsets :
       calc' = [fn |-> "formatOffset", in |-> m, out |-> formatOffset(m)]
  /\ UNCHANGED <<envVars, cameraVars, placeVars, geoVars, captureVars, clockVars, lifeVars, writes>>

ApplyLiveTimeGmt ==
  /\ calc.fn = "none"
  /\ \E m \in Offsets :
       calc' = [fn |-> "gmt", in |-> m, out |-> LiveTimeGmt(m)]
  /\ UNCHANGED <<envVars, cameraVars, placeVars, geoVars, captureVars, clockVars, lifeVars, writes>>

ApplyTo12Hour ==
  /\ calc.fn = "none"
  /\ \E date \in Dates :
       calc' = [fn |-> "to12HourWithSeconds", in |-> date, out |-> to12HourWithSeconds(date)]
  /\ UNCHANGED <<envVars, cameraVars, placeVars, geoVars, captureVars, clockVars, lifeVars, writes>>

ApplyStampH ==
  /\ calc.fn = "none"
  /\ \E size \in CanvasSizes :
       calc' = [fn |-> "stampH", in |-> size, out |-> stampH(size[2])]
  /\ UNCHANGED <<envVars, cameraVars, placeVars, geoVars, captureVars, clockVars, lifeVars, writes>>

ApplyWrapText ==
  /\ calc.fn = "none"
  /\ \E text \in Texts, maxWidth \in 0..MaxLineWidth, lineHeight \in LineHeights :
       calc' = [fn |-> "wrapText",
                in |-> [words |-> text, maxWidth |-> maxWidth, lineHeight |-> lineHeight],
                out |-> wrapText(text, 0, maxWidth, lineHeight)]
  /\ UNCHANGED <<envVars, cameraVars, placeVars, geoVars, captureVars, clockVars, lifeVars, writes>>

ApplyStampGeometry ==
  /\ calc.fn = "none"
  /\ \E size \in GeometrySizes :
       calc' = [fn |-> "geometry", in |-> size, out |-> StampGeometry(size[1], size[2])]
  /\ UNCHANGED <<envVars, cameraVars, placeVars, geoVars, captureVars, clockVars, lifeVars, writes>>

PureInit == Init /\ variant = 1 /\ ~googleKey

PureNext ==
  \/ ApplyFormatOffset
  \/ ApplyLiveTimeGmt
  \/ ApplyTo12Hour
  \/ ApplyStampH
  \/ ApplyStampGeometry
  \/ ApplyWrapText

PureSpec == PureInit /\ [][PureNext]_vars

(***************************************************************************)
(* Properties.                                                             *)
(***************************************************************************)

Kinds(layers) == { layers[i].kind : i \in 1..Len(layers) }

ExportsOf(c) == { i \in 1..Len(exports) : exports[i].by = c }

Loading == { c \in Captures : captures[c].pc = "loading" }

\* C1: every capture requested while a frame exists ends with an export that
\* holds the frame, the panel, the text block and the badge, whatever the
\* position source, the geocoders and the map fetch answered.
C1_EveryCaptureExports ==
  \A c \in Captures :
    (captures[c].pc = "done" /\ captures[c].hadFrame) =>
      \E i \in ExportsOf(c) :
        {"frame", "panel", "text", "badge"} \subseteq Kinds(exports[i].layers)

\* C2: in variant 1, a map image load that fails resolves to the placeholder
\* (it does not reject), the placeholder is drawn in the map square, and the
\* text and the badge are drawn after it.
C2_FailedLoadDrawsPlaceholder ==
  variant = 1 =>
    \A c \in Captures :
      /\ captures[c].load # "rejected"
      /\ (captures[c].pc = "done" /\ captures[c].load \in {"rejected", "placeholder"}) =>
           \E i \in ExportsOf(c) :
             \E k \in 1..Len(exports[i].layers) :
               /\ exports[i].layers[k] = Layer("placeholder", c)
               /\ {"text", "badge"} \subseteq
                    Kinds(SubSeq(exports[i].layers, k + 1, Len(exports[i].layers)))

\* the primary provider answered with status OK
PrimaryAnsweredOK ==
  primaryAnswer.kind = "json" /\ ~primaryAnswer.data.isNull /\ primaryAnswer.data.status = "OK"

\* the primary provider's answer is in, and it is a failure or a non-OK status
PrimaryFailed == primaryAnswer.kind # "none" /\ ~PrimaryAnsweredOK

\* C3: with a credential the primary provider is queried first; when it fails
\* or answers non-OK the fallback is queried next and no error is shown; the
\* fallback is never queried after the primary answered with status OK.
C3_FallbackOnlyAfterPrimaryFailure ==
  (variant = 1 /\ googleKey) =>
    /\ queries # <<>> => queries[1] = "google"
    /\ PrimaryFailed =>
         /\ Len(queries) = 2 /\ queries[2] = "osm"
         /\ alerts = <<>>
         /\ fallbackAnswer.kind = "none" => addressRaw = <<"Loading address...">>
    /\ PrimaryAnsweredOK => Len(queries) = 1

\* the fallback query failed: the fetch rejected, the body was not JSON, or
\* the JSON was null, so that the catch block of lines 164-168 ran
FallbackFailed == fallbackAnswer.kind # "none" /\ ~FallbackAccepted(fallbackAnswer)

IsString(v) == v # Undefined /\ v # Thrown

\* C4: in every state landmark, line2 (addressLine) and addressRaw
\* (fullAddress) are strings, never undefined or null, and so is every line a
\* capture holds or has drawn; once the fallback query has failed they are
\* exactly "", "" and the non-empty string "Unable to fetch address".
C4_PlaceInfoAlwaysDefined ==
  /\ IsString(landmark) /\ IsString(line2) /\ IsString(addressRaw)
  /\ \A c \in Captures :
       /\ IsString(captures[c].snap.landmark)
       /\ IsString(captures[c].snap.line2)
       /\ IsString(captures[c].snap.addressRaw)
  /\ \A i \in 1..Len(exports) : \A k \in 1..Len(exports[i].layers) :
       IsString(exports[i].layers[k].l1) /\ IsString(exports[i].layers[k].l2)
  /\ (variant = 1 /\ FallbackFailed) =>
       /\ landmark = Empty
       /\ line2 = Empty
       /\ addressRaw = <<"Unable to fetch address">>
       /\ Truthy(addressRaw)

\* C4's case: both providers were queried and both failed
C4_Witness ==
  /\ variant = 1 /\ googleKey /\ geo = "done"
  /\ PrimaryFailed /\ FallbackFailed
  /\ addressRaw = <<"Unable to fetch address">>

\* the primary answer was taken: status OK and the landmark extraction returned
PrimaryTaken == variant = 1 /\ geo = "done" /\ PrimaryAccepted(primaryAnswer)

\* the result the landmark is taken from: the first one flagged
\* point_of_interest or establishment, else the first one
ChosenIndex(results) == IF FirstPlaceIndex(results) # 0 THEN FirstPlaceIndex(results) ELSE 1

\* the strings of one result
ResultStrings(r) ==
  {r.formatted_address} \cup { r.components[k] : k \in 1..Len(r.components) }

\* C5, as stated: for a primary OK answer, addressLine and fullAddress are the
\* formatted address of the chosen result.
C5_AddressOfChosenResult ==
  (PrimaryTaken /\ primaryAnswer.data.hasResults /\ primaryAnswer.data.results # <<>>) =>
    LET r == primaryAnswer.data.results[ChosenIndex(primaryAnswer.data.results)]
    IN /\ line2 = Or(r.formatted_address, Empty)
       /\ addressRaw = Or(r.formatted_address, Empty)

\* C5, amended: for a primary OK answer the landmark is a string of the chosen
\* result (the first flagged one, else the first), while addressLine and
\* fullAddress are the formatted address of the FIRST result of the list ("" if
\* it has none); an OK answer whose landmark extraction throws is dropped and
\* the fallback provider is queried.
C5_AddressOfFirstResult ==
  /\ (PrimaryTaken /\ primaryAnswer.data.hasResults /\ primaryAnswer.data.results # <<>>) =>
       LET rs == primaryAnswer.data.results
       IN /\ landmark \in ResultStrings(rs[ChosenIndex(rs)]) \cup {Empty}
          /\ landmark # Undefined
          /\ line2 = Or(rs[1].formatted_address, Empty)
          /\ addressRaw = Or(rs[1].formatted_address, Empty)
  /\ (variant = 1 /\ PrimaryAnsweredOK /\ ~PrimaryAccepted(primaryAnswer)) =>
       queries = <<"google", "osm">>

\* C5's case: the flagged result is second, and the address is the first one's
C5_Witness ==
  /\ PrimaryTaken
  /\ primaryAnswer.data.results = <<PlainResult, PlaceResult>>
  /\ landmark = PlaceResult.formatted_address
  /\ line2 = PlainResult.formatted_address

\* the fallback answer was taken by the handler of the mounted variant
FallbackTaken == geo = "done" /\ FallbackAccepted(fallbackAnswer)

\* the claimed preference order: named point, attraction, building, leisure,
\* amenity, town/village/city, suburb/neighbourhood, road
ClaimedLandmark(j) ==
  LET a == AddressOf(j) IN
    Or(j.name, Or(a.attraction, Or(a.building, Or(a.leisure, Or(a.amenity,
    Or(a.town, Or(a.village, Or(a.city, Or(a.suburb, Or(a.neighbourhood,
    Or(a.road, Empty)))))))))))

\* C6: for a fallback answer the landmark is the first non-empty field of the
\* claimed order, whatever else (such as the display string) the answer carries.
C6_LandmarkPreferenceOrder ==
  (variant = 1 /\ FallbackTaken) => landmark = ClaimedLandmark(fallbackAnswer.data)

\* the claimed address line: the non-empty values among road,
\* neighbourhood-or-suburb, city-or-town-or-village, state, postcode, country
ClaimedAddressLine(a) ==
  LET pick(x, y) == IF Truthy(x) THEN x ELSE y
      slots == << a.road, pick(a.neighbourhood, a.suburb),
                  pick(a.city, pick(a.town, a.village)), a.state, a.postcode, a.country >>
      kept == { k \in 1..6 : Truthy(slots[k]) }
      RECURSIVE line(_)
      line(k) == IF k > 6 THEN <<>>
                 ELSE (IF k \in kept THEN slots[k] ELSE <<>>) \o line(k + 1)
  IN line(1)

\* the address line of the stamp, as the mounted variant holds it
AddressLine == IF variant = 1 THEN line2 ELSE IF Len(address) >= 2 THEN address[2] ELSE Empty

\* C7: for a fallback answer the address line is the comma-joined non-empty
\* values, in the claimed order, with no empty segment.
C7_AddressLineJoinsNonEmptyFields ==
  FallbackTaken =>
    /\ AddressLine = ClaimedAddressLine(AddressOf(fallbackAnswer.data))
    /\ \A k \in 1..Len(AddressLine) : AddressLine[k] # ""

\* C8: at most one map request is in flight and one is sent per session,
\* however many captures are requested.
C8_OneMapRequestPerSession ==
  /\ mapRequests <= 1
  /\ Cardinality(Loading) <= 1

\* C9: a capture requested before the first frame produces no export and shows
\* a warning; every export is made from a real frame.
C9_NoExportBeforeFirstFrame ==
  /\ \A i \in 1..Len(exports) : exports[i].hadFrame
  /\ \A c \in Captures :
       (captures[c].pc # "idle" /\ ~captures[c].hadFrame) => alerts # <<>>

\* the stated canvas size for a W x H frame at an angle
ClaimedCanvasSize(size, angle) ==
  IF angle \in {90, 270} THEN <<size[2], size[1]>> ELSE size

\* C10: the canvas of an export made from a W x H frame is H x W when the
\* device is at 90 or 270 degrees and W x H at 0 or 180.
C10_CanvasFollowsOrientation ==
  variant = 1 =>
    \A i \in 1..Len(exports) :
      exports[i].hadFrame =>
        \A angle \in Angles :
          /\ <<exports[i].width, exports[i].height>> = ClaimedCanvasSize(videoSize, angle)
          /\ CanvasSize(videoSize, angle) = ClaimedCanvasSize(videoSize, angle)

RECURSIVE Number(_)
\* the number a digit sequence renders
Number(digits) ==
  IF digits = <<>> THEN 0 ELSE 10 * Number(SubSeq(digits, 1, Len(digits) - 1)) + digits[Len(digits)]

\* sign, hour and minute of a rendered GMT suffix, against the offset-minutes m
OffsetRendered(m, r) ==
  /\ m < 0 => r.sign = "+"
  /\ m > 0 => r.sign = "-"
  /\ Number(r.hh) <= 23
  /\ Number(r.mm) \in 0..59
  /\ 60 * Number(r.hh) + Number(r.mm) = Abs(m)

\* C12: for every offset-minutes m, formatOffset(m) renders the sign opposite to
\* m's, an hour of at most 23 and a minute in 0..59, both two digits wide
\* (m = -300 renders +05:00); the second component's suffix has the same sign,
\* hour and minute.
C12_OffsetSignAndRange ==
  /\ calc.fn = "formatOffset" =>
       /\ OffsetRendered(calc.in, calc.out)
       /\ Len(calc.out.hh) = 2 /\ Len(calc.out.mm) = 2
       /\ calc.in = -300 => calc.out = [sign |-> "+", hh |-> <<0, 5>>, mm |-> <<0, 0>>]
  /\ calc.fn = "gmt" => OffsetRendered(calc.in, calc.out)

\* C12's case: five hours ahead of UTC
C12_Witness ==
  /\ calc.fn = "formatOffset"
  /\ calc.in = -300
  /\ calc.out = [sign |-> "+", hh |-> <<0, 5>>, mm |-> <<0, 0>>]

\* C13: for every time of day the 12-hour rendering has an hour in 1..12 (hours
\* 0 and 12 render as 12), the minutes and seconds unchanged, and AM exactly
\* when the hour is below 12.
C13_TwelveHourClock ==
  calc.fn = "to12HourWithSeconds" =>
    LET d == calc.in
        r == calc.out
    IN /\ Number(r.hh) \in 1..12
       /\ Number(r.hh) % 12 = d.hours % 12
       /\ d.hours \in {0, 12} => r.hh = <<1, 2>>
       /\ Number(r.mm) = d.minutes /\ Len(r.mm) = 2
       /\ Number(r.ss) = d.seconds /\ Len(r.ss) = 2
       /\ r.ampm = (IF d.hours < 12 THEN "AM" ELSE "PM")
       /\ d = [hours |-> 0, minutes |-> 0, seconds |-> 0] =>
            r = [hh |-> <<1, 2>>, mm |-> <<0, 0>>, ss |-> <<0, 0>>, ampm |-> "AM"]
       /\ d = [hours |-> 12, minutes |-> 0, seconds |-> 0] =>
            r = [hh |-> <<1, 2>>, mm |-> <<0, 0>>, ss |-> <<0, 0>>, ampm |-> "PM"]
       /\ d = [hours |-> 23, minutes |-> 59, seconds |-> 59] =>
            r = [hh |-> <<1, 1>>, mm |-> <<5, 9>>, ss |-> <<5, 9>>, ampm |-> "PM"]

\* C13's case: midnight
C13_Witness ==
  /\ calc.fn = "to12HourWithSeconds"
  /\ calc.in = [hours |-> 0, minutes |-> 0, seconds |-> 0]
  /\ calc.out.hh = <<1, 2>> /\ calc.out.ampm = "AM"

\* C14, as stated: for every canvas size the panel height is at most 220 and at
\* most 22% of the canvas height.
C14_PanelAtMost22Percent ==
  calc.fn = "stampH" =>
    /\ calc.out <= 220
    /\ 100 * calc.out <= 22 * calc.in[2]

\* C14, amended: for every canvas size the panel height is at most 220 and is
\* 22% of the canvas height rounded to the nearest pixel, halves up (so it is
\* below 22% + 0.5px, and above 22% by up to half a pixel for some heights); it
\* is the same for every canvas width.
C14_PanelRounded22Percent ==
  calc.fn = "stampH" =>
    /\ calc.out <= 220
    /\ 100 * calc.out <= 22 * calc.in[2] + 50
    /\ calc.out < 220 => 100 * calc.out > 22 * calc.in[2] - 50
    /\ calc.out = stampH(calc.in[2])

\* C14's case: a 480-pixel-high canvas, whose 22% is 105.6
C14_Witness ==
  /\ calc.fn = "stampH"
  /\ calc.in[2] = 480
  /\ calc.out = 106

\* the words of a text that are not empty
RealWords(words) == SelectSeq(words, LAMBDA w : w # 0)

RECURSIVE Flatten(_)
\* the words of the emitted lines, in the order emitted
Flatten(lines) == IF lines = <<>> THEN <<>> ELSE Head(lines).text \o Flatten(Tail(lines))

\* the words fit on two lines but not on one
FitsOnTwoLines(words, maxWidth) ==
  /\ measureText(words) > maxWidth
  /\ \E k \in 1..(Len(words) - 1) :
       /\ measureText(SubSeq(words, 1, k)) <= maxWidth
       /\ measureText(SubSeq(words, k + 1, Len(words))) <= maxWidth

\* C15: wrapText emits no line wider than maxWidth unless the line is a single
\* word, emits every word once and in order, puts successive lines lineHeight
\* apart, and emits exactly two lines for a text that overflows once and whose
\* remainder fits on a second line.
C15_GreedyWrap ==
  calc.fn = "wrapText" =>
    LET lines == calc.out.lines
        words == RealWords(calc.in.words)
    IN /\ \A i \in 1..Len(lines) :
            measureText(lines[i].text) <= calc.in.maxWidth \/ Len(lines[i].text) = 1
       /\ RealWords(Flatten(lines)) = words
       /\ \A i \in 1..Len(lines) : lines[i].y = (i - 1) * calc.in.lineHeight
       /\ FitsOnTwoLines(words, calc.in.maxWidth) => Len(lines) = 2

\* C15's case: two words that do not fit on one line
C15_Witness ==
  /\ calc.fn = "wrapText"
  /\ calc.in.words = <<3, 3>>
  /\ calc.in.maxWidth = 6
  /\ Len(calc.out.lines) = 2

\* C16: for a primary OK answer the landmark is the first comma-delimited
\* segment of the chosen result's formatted address, and the first component
\* name only when that address is unusable.
C16_LandmarkIsFirstSegment ==
  (PrimaryTaken /\ primaryAnswer.data.hasResults /\ primaryAnswer.data.results # <<>>) =>
    LET r == primaryAnswer.data.results[ChosenIndex(primaryAnswer.data.results)]
    IN landmark = IF Truthy(r.formatted_address)
                  THEN FirstSegment(r.formatted_address)
                  ELSE Or(FirstComponentGuarded(r), Empty)

\* the text blocks of the exported images
ExportedTexts ==
  UNION { { exports[i].layers[k] :
              k \in { n \in 1..Len(exports[i].layers) : exports[i].layers[n].kind = "text" } } :
          i \in 1..Len(exports) }

\* C11: whenever the capture holds a fix, whatever its latitude and longitude
\* (0 included), the coordinate text of the stamp shows both to 6 decimals; the
\* em-dash placeholder is shown when, and only when, it holds no fix.
C11_CoordinatesSixDecimals ==
  \A t \in ExportedTexts :
    /\ t.fix # NoCoords => t.coord = CoordText("numbers", 6, t.fix[1], t.fix[2])
    /\ t.fix = NoCoords => t.coord = CoordText("dashes", 0, 0, 0)

\* C17: once the component is unmounted the ticker is not running, so no tick
\* fires any more, and no track of an acquired stream is live.
C17_TeardownStopsTickerAndTracks ==
  ~mounted => (ticker # "running" /\ tracks # "live")

\* C18: any two exports of a session have distinct file names, and each file
\* name embeds the instant its capture was requested.
C18_FileNamesDistinctAndTimed ==
  /\ \A i, j \in 1..Len(exports) : i # j => exports[i].name # exports[j].name
  /\ \A i \in 1..Len(exports) :
       Len(exports[i].name) = 3 /\ exports[i].name[2] = exports[i].requestedAt

\* C19: each of coords (GeoFix), landmark, line2, addressRaw and address
\* (PlaceInfo) and mapUrl (MapAsset) is written at most once in a session: after
\* its first write none is written again, on any path.
C19_EachFieldWrittenOnce ==
  \A f \in StateFields : writes[f] <= 1

\* C20: the time drawn on a capture's stamp is the ticker's value when the
\* capture was requested, whatever ticks fired while it waited for the map
\* image.
C20_TimestampFrozenAtRequest ==
  \A i \in 1..Len(exports) :
    \A k \in 1..Len(exports[i].layers) :
      (exports[i].layers[k].kind = "text" /\ exports[i].layers[k].by = exports[i].by) =>
        exports[i].layers[k].time = exports[i].clockAtRequest

\* C20's case: the ticker fired between the request and the export
C20_Witness ==
  \E i \in 1..Len(exports) :
    /\ exports[i].clockAtExport # exports[i].clockAtRequest
    /\ \E k \in 1..Len(exports[i].layers) :
         /\ exports[i].layers[k].kind = "text"
         /\ exports[i].layers[k].by = exports[i].by
         /\ exports[i].layers[k].time = exports[i].clockAtRequest

\* C21: captures do not interfere through the shared canvas: every exported
\* image holds the frame and the stamp layers of exactly one capture, the one
\* that exported it, even when another capture was requested while it waited
\* for its map image.
C21_ExportHoldsOneCapture ==
  \A i \in 1..Len(exports) :
    \A k \in 1..Len(exports[i].layers) :
      exports[i].layers[k].by = exports[i].by

\* C22: for every canvas width and height the stamp geometry is well-formed:
\* the panel lies inside the canvas, the map square has a positive side of at
\* most 120 and lies inside the panel, and the text column has positive width
\* and lies inside the panel to the right of the map.
C22_StampGeometryWellFormed ==
  calc.fn = "geometry" =>
    LET canvasW == calc.in[1]
        canvasH == calc.in[2]
        g == calc.out
    IN \* the panel inside the canvas
       /\ g.stampX >= 0 /\ g.stampY >= 0
       /\ g.stampX + g.stampW <= canvasW
       /\ g.stampY + g.stampH <= canvasH
       \* the map square inside the panel
       /\ g.mapSize > 0 /\ g.mapSize <= 120
       /\ g.mapX >= g.stampX /\ g.mapY >= g.stampY
       /\ g.mapX + g.mapSize <= g.stampX + g.stampW
       /\ g.mapY + g.mapSize <= g.stampY + g.stampH
       \* the text column inside the panel, to the right of the map
       /\ g.textWidth > 0
       /\ g.textX >= g.mapX + g.mapSize
       /\ g.textX + g.textWidth <= g.stampX + g.stampW

=============================================================================
